---- MODULE Spec2Model ----
(***************************************************************************)
(* HomeScreen of app/(tabs)/index.tsx: a form (name + picked image) whose   *)
(* submit handler uploads the image to the object store and inserts a row   *)
(* in the form_submissions table, and a list of the rows fetched from that  *)
(* table.  Every await of the source is a separate step; the remote store,  *)
(* the remote table, the picker and the network-status provider answer      *)
(* nondeterministically.                                                    *)
(***************************************************************************)
EXTENDS Integers, Sequences, FiniteSets, Bags, TLC

\* ------------------------------------------------------------------ bounds
MaxJobs == 2
MaxFetches == 2
MaxRows == 1

\* ------------------------------------------------------------ input sets
\* names the user types: empty, blank, blank-padded
Names == {<<>>, <<" ">>, <<" ", "a">>}

\* local image URIs the picker returns: one with a dot, one without
Uris == {<<"p", ".", "j">>, <<"j">>}

\* values Date.now() returns: the wall clock may stand still or be set back
Clock == {0, 1}

\* error.message of a failed call, per collaborator (the empty one is falsy in JS)
ReadErrors == {"", "Network request failed"}
StorageErrors == {"", "storage error"}
InsertErrors == {"", "insert error"}
SelectErrors == {"", "select error"}

\* T | null values: Null, or Some(v)
Null == <<>>
Some(v) == <<v>>

\* 5 * 1024 * 1024
SizeLimit == 5 * 1024 * 1024

\* byte sizes a local image can have: exactly the limit, one byte above it
BlobSizes == {SizeLimit, SizeLimit + 1}

\* ------------------------------------------------------------- notices
Notice(t, m) == [title |-> t, message |-> m]
NoAlert == Notice("", "")
EnterNameAlert == Notice("Error", "Please enter your name")
SelectImageAlert == Notice("Error", "Please select an image")
NoNetworkAlert == Notice("Error", "No network connection. Please try again later.")
TooLargeAlert == Notice("Error", "Image size must be less than 5MB")
SuccessAlert == Notice("Success", "Your information has been saved!")
NetworkLostAlert == Notice("Network Connection Lost", "You are currently offline. Some features may not work correctly.")
PermissionAlert == Notice("Sorry, we need camera roll permissions to make this work!", "")

\* error.message || fallback
OrDefault(msg, fallback) == IF msg = "" THEN fallback ELSE msg

SubmitErrorAlert(msg) ==
  Notice("Error", OrDefault(msg, "Something went wrong while submitting your form"))
FetchErrorAlert(msg) ==
  Notice("Error", OrDefault(msg, "Failed to load submissions"))

\* `Failed to fetch image: ${response.status}`
BadStatusMessage == "Failed to fetch image: status"

\* ------------------------------------------------------- pure functions
IsSpace(c) == c = " "

\* String.prototype.trim
RECURSIVE TrimStart(_)
TrimStart(s) ==
  IF s = <<>> THEN <<>>
  ELSE IF IsSpace(Head(s)) THEN TrimStart(Tail(s)) ELSE s

RECURSIVE TrimEnd(_)
TrimEnd(s) ==
  IF s = <<>> THEN <<>>
  ELSE IF IsSpace(s[Len(s)]) THEN TrimEnd(SubSeq(s, 1, Len(s) - 1)) ELSE s

Trim(s) == TrimEnd(TrimStart(s))

\* !name for a string
EmptyString(s) == s = <<>>

\* !image for a string | null
NoImage(img) == img = Null \/ EmptyString(img[1])

\* image.split('.').pop(): the part after the last dot, the whole when no dot
RECURSIVE SplitPop(_)
SplitPop(s) ==
  IF s = <<>> THEN <<>>
  ELSE IF s[Len(s)] = "." THEN <<>>
  ELSE Append(SplitPop(SubSeq(s, 1, Len(s) - 1)), s[Len(s)])

\* `${Date.now()}.${fileExt}`
FileName(ts, uri) == [ts |-> ts, ext |-> SplitPop(uri)]

\* supabase.storage.from('form_images').getPublicUrl(filePath).data.publicUrl
GetPublicUrl(filePath) == [bucket |-> "form_images", path |-> filePath]

TooLargeTenfold(size) == size > 50 * 1024 * 1024

\* blob.size > 5 * 1024 * 1024
TooLarge(size) == size > SizeLimit

ValidateUntrimmed(n, img, conn) ==
  IF n = <<>> THEN EnterNameAlert
  ELSE IF NoImage(img) THEN SelectImageAlert
  ELSE IF ~conn THEN NoNetworkAlert
  ELSE NoAlert

ValidateIgnoringNetwork(n, img, conn) ==
  IF Trim(n) = <<>> THEN EnterNameAlert
  ELSE IF NoImage(img) THEN SelectImageAlert
  ELSE NoAlert

\* the three early returns of handleSubmit; NoAlert when the draft passes
Validate(n, img, conn) ==
  IF Trim(n) = <<>> THEN EnterNameAlert
  ELSE IF NoImage(img) THEN SelectImageAlert
  ELSE IF ~conn THEN NoNetworkAlert
  ELSE NoAlert

SubmitDisabledWhenIncomplete(u, n, img) == EmptyString(n) \/ NoImage(img)

\* disabled={uploading || !name || !image}
SubmitDisabled(u, n, img) == u \/ EmptyString(n) \/ NoImage(img)

\* .order('created_at', { ascending: false }): newest row first
RECURSIVE Reverse(_)
Reverse(s) == IF s = <<>> THEN <<>> ELSE Append(Reverse(Tail(s)), Head(s))

RemoveAt(s, i) == SubSeq(s, 1, i - 1) \o SubSeq(s, i + 1, Len(s))

\* what the list section renders
ListView(loading, subs) ==
  IF loading THEN "spinner"
  ELSE IF Len(subs) > 0 THEN "items"
  ELSE "empty"

\* ----------------------------------------------------------------- state
VARIABLES
  mounted,             \* the mount effects have run
  name,                \* useState('')
  image,               \* useState(null)
  uploading,           \* useState(false)
  submissions,         \* useState([])
  loadingSubmissions,  \* useState(false)
  refreshing,          \* useState(false)
  isConnected,         \* useState(true)
  netFetch,            \* NetInfo.fetch() of the mount effect is pending
  permission,          \* the mount-time permission request: unasked/pending/answered
  pickerOpen,          \* launchImageLibraryAsync is pending
  imageAtPick,         \* image when the pending pickImage was invoked, Null with none pending
  pickCanceled,        \* the latest step was the picker returning canceled
  jobs,                \* handleSubmit invocations in flight, each with its closure
  fetches,             \* fetchSubmissions invocations in flight
  table,               \* rows of form_submissions, oldest first
  bucket,              \* keys stored in form_images
  alert                \* the notice raised by the latest step, NoAlert if none

vars == <<mounted, name, image, uploading, submissions, loadingSubmissions,
          refreshing, isConnected, netFetch, permission, pickerOpen, imageAtPick,
          pickCanceled, jobs, fetches, table, bucket, alert>>

ui == <<name, image, uploading, submissions, loadingSubmissions, refreshing, isConnected>>

Init ==
  /\ mounted = FALSE
  /\ name = <<>>
  /\ image = Null
  /\ uploading = FALSE
  /\ submissions = <<>>
  /\ loadingSubmissions = FALSE
  /\ refreshing = FALSE
  /\ isConnected = TRUE
  /\ netFetch = FALSE
  /\ permission = "unasked"
  /\ pickerOpen = FALSE
  /\ imageAtPick = Null
  /\ pickCanceled = FALSE
  /\ jobs = <<>>
  /\ fetches = EmptyBag
  /\ table = <<>>
  /\ bucket = {}
  /\ alert = NoAlert

\* ------------------------------------------------------ fetchSubmissions
\* the first n rows of the table: the table as it was when it had n rows
Prefix(t, n) == SubSeq(t, 1, n)

\* the synchronous part of fetchSubmissions: flag on, select issued.  The
\* table only grows, so the select, evaluated at some instant between the
\* call and its return, sees a prefix at least as long as the table at the call
StartFetch(fs, t, fromRefresh) ==
  fs (+) SetToBag({[seen |-> Len(t), fromRefresh |-> fromRefresh]})

\* the screen takes input: the mount-time calls have returned and neither the
\* permission dialog nor the picker covers it
Interactive == mounted /\ ~netFetch /\ permission # "pending" /\ ~pickerOpen

\* the three mount effects
Mount ==
  /\ ~mounted
  /\ mounted' = TRUE
  /\ netFetch' = TRUE
  /\ permission' = "pending"
  /\ loadingSubmissions' = TRUE
  /\ fetches' = StartFetch(fetches, table, FALSE)
  /\ alert' = NoAlert
  /\ pickCanceled' = FALSE
  /\ UNCHANGED <<name, image, uploading, submissions, refreshing, isConnected,
                 pickerOpen, imageAtPick, jobs, table, bucket>>

\* pull-to-refresh; RefreshControl does not fire while it shows refreshing
onRefresh ==
  /\ Interactive /\ ~refreshing
  /\ BagCardinality(fetches) < MaxFetches
  /\ refreshing' = TRUE
  /\ loadingSubmissions' = TRUE
  /\ fetches' = StartFetch(fetches, table, TRUE)
  /\ alert' = NoAlert
  /\ pickCanceled' = FALSE
  /\ UNCHANGED <<mounted, imageAtPick, name, image, uploading, submissions, isConnected, netFetch,
                 permission, pickerOpen, jobs, table, bucket>>

SubmissionsClearedOnError(subs, result) == IF result = Null THEN <<>> ELSE result[1]

\* if (error) throw error; if (data) setSubmissions(data): the list after a
\* select that returned result (Null: it failed)
SubmissionsAfter(subs, result) == IF result = Null THEN subs ELSE result[1]

\* what the select can return for call f: an error, or the rows it saw, newest first
SelectResults(f) == {Null} \cup {Some(Reverse(Prefix(table, n))) : n \in f.seen..Len(table)}

\* the awaited select returns: catch / setSubmissions, finally, then of onRefresh
FetchDone ==
  \E f \in BagToSet(fetches) :
    /\ \E result \in SelectResults(f) :
         /\ submissions' = SubmissionsAfter(submissions, result)
         /\ IF result = Null
              THEN \E m \in SelectErrors : alert' = FetchErrorAlert(m)
              ELSE alert' = NoAlert
    /\ loadingSubmissions' = FALSE
    /\ refreshing' = IF f.fromRefresh THEN FALSE ELSE refreshing
    /\ fetches' = fetches (-) SetToBag({f})
    /\ pickCanceled' = FALSE
    /\ UNCHANGED <<mounted, imageAtPick, name, image, uploading, isConnected, netFetch, permission,
                   pickerOpen, jobs, table, bucket>>

\* --------------------------------------------------- connectivity monitor
\* checkNetworkConnection: the awaited NetInfo.fetch() returns
NetFetchResolved ==
  /\ netFetch
  /\ netFetch' = FALSE
  /\ \E c \in BOOLEAN : isConnected' = c
  /\ alert' = NoAlert
  /\ pickCanceled' = FALSE
  /\ UNCHANGED <<mounted, imageAtPick, name, image, uploading, submissions, loadingSubmissions,
                 refreshing, permission, pickerOpen, jobs, fetches, table, bucket>>

\* the NetInfo.addEventListener callback
NetEvent ==
  /\ mounted
  /\ \E c \in BOOLEAN :
       /\ isConnected' = c
       /\ alert' = IF ~c THEN NetworkLostAlert ELSE NoAlert
  /\ pickCanceled' = FALSE
  /\ UNCHANGED <<mounted, imageAtPick, name, image, uploading, submissions, loadingSubmissions,
                 refreshing, netFetch, permission, pickerOpen, jobs, fetches, table,
                 bucket>>

\* ----------------------------------------------------------- media picker
\* requestMediaLibraryPermissionsAsync returns; its status lives only in the
\* effect's closure
PermissionResolved ==
  /\ permission = "pending"
  /\ permission' = "answered"
  /\ \E status \in {"granted", "denied"} :
       alert' = IF status # "granted" THEN PermissionAlert ELSE NoAlert
  /\ pickCanceled' = FALSE
  /\ UNCHANGED <<mounted, imageAtPick, ui, netFetch, pickerOpen, jobs, fetches, table, bucket>>

\* pickImage up to its await: the library picker is launched, whatever the
\* permission status
pickImage ==
  /\ Interactive
  /\ pickerOpen' = TRUE
  /\ imageAtPick' = image
  /\ alert' = NoAlert
  /\ pickCanceled' = FALSE
  /\ UNCHANGED <<mounted, ui, netFetch, permission, jobs, fetches, table, bucket>>

PickedClearedOnCancel(img, result) == IF result = Null THEN Null ELSE result

\* if (!result.canceled && result.assets) setImage(result.assets[0].uri): the
\* image after a picker result (Null: canceled, else the asset's uri)
Picked(img, result) == IF result = Null THEN img ELSE result

\* launchImageLibraryAsync returns canceled or one asset, or it rejects and
\* pickImage ends at its await
PickerResult ==
  /\ pickerOpen
  /\ pickerOpen' = FALSE
  /\ imageAtPick' = Null
  /\ \/ \E result \in {Null} \cup {Some(u) : u \in Uris} :
          /\ image' = Picked(image, result)
          /\ pickCanceled' = (result = Null)
     \/ /\ UNCHANGED image
        /\ pickCanceled' = FALSE
  /\ alert' = NoAlert
  /\ UNCHANGED <<mounted, name, uploading, submissions, loadingSubmissions, refreshing,
                 isConnected, netFetch, permission, jobs, fetches, table, bucket>>

\* onChangeText={setName}
ChangeText ==
  /\ Interactive
  /\ \E n \in Names \ {name} : name' = n
  /\ alert' = NoAlert
  /\ pickCanceled' = FALSE
  /\ UNCHANGED <<mounted, imageAtPick, image, uploading, submissions, loadingSubmissions, refreshing,
                 isConnected, netFetch, permission, pickerOpen, jobs, fetches, table,
                 bucket>>

\* ------------------------------------------------------------ handleSubmit
\* handleSubmit up to its first await, with the name, image and isConnected
\* of the render the handler belongs to
handleSubmit ==
  LET verdict == Validate(name, image, isConnected) IN
  /\ Len(jobs) < MaxJobs
  /\ alert' = verdict
  /\ IF verdict # NoAlert
       THEN UNCHANGED <<uploading, jobs>>
       ELSE /\ uploading' = TRUE
            /\ \E t \in Clock :
                 jobs' = Append(jobs, [pc |-> "fetch", name |-> name, image |-> image[1],
                                     filePath |-> FileName(t, image[1]),
                                     blob |-> 0, imageUrl |-> Null])
  /\ pickCanceled' = FALSE
  /\ UNCHANGED <<mounted, imageAtPick, name, image, submissions, loadingSubmissions, refreshing,
                 isConnected, netFetch, permission, pickerOpen, fetches, table, bucket>>

\* the submit button is pressed
PressSubmit ==
  /\ Interactive
  /\ ~SubmitDisabled(uploading, name, image)
  /\ handleSubmit

\* handleSubmit invoked whatever the button shows
CallSubmit ==
  /\ mounted
  /\ handleSubmit

FailResettingForm(i, msg) ==
  /\ alert' = SubmitErrorAlert(msg)
  /\ uploading' = FALSE
  /\ jobs' = RemoveAt(jobs, i)
  /\ name' = <<>> /\ image' = Null
  /\ pickCanceled' = FALSE
  /\ UNCHANGED <<mounted, imageAtPick, submissions, loadingSubmissions, refreshing,
                 isConnected, netFetch, permission, pickerOpen, fetches, table, bucket>>

FailStayingBusy(i, msg) ==
  /\ alert' = SubmitErrorAlert(msg)
  /\ jobs' = RemoveAt(jobs, i)
  /\ pickCanceled' = FALSE
  /\ UNCHANGED <<mounted, imageAtPick, name, image, uploading, submissions, loadingSubmissions,
                 refreshing, isConnected, netFetch, permission, pickerOpen, fetches,
                 table, bucket>>

\* catch and finally of handleSubmit
Fail(i, msg) ==
  /\ alert' = SubmitErrorAlert(msg)
  /\ uploading' = FALSE
  /\ jobs' = RemoveAt(jobs, i)
  /\ pickCanceled' = FALSE
  /\ UNCHANGED <<mounted, imageAtPick, name, image, submissions, loadingSubmissions, refreshing,
                 isConnected, netFetch, permission, pickerOpen, fetches, table, bucket>>

\* await fetch(image) returns
ImageFetched ==
  \E i \in 1..Len(jobs) :
    /\ jobs[i].pc = "fetch"
    /\ \/ \E m \in ReadErrors : Fail(i, m)
       \/ Fail(i, BadStatusMessage)
       \/ /\ jobs' = [jobs EXCEPT ![i].pc = "blob"]
          /\ alert' = NoAlert
          /\ pickCanceled' = FALSE
          /\ UNCHANGED <<mounted, imageAtPick, ui, netFetch, permission, pickerOpen, fetches, table,
                         bucket>>

\* await response.blob() returns; the size check; the upload is issued
BlobRead ==
  \E i \in 1..Len(jobs) :
    /\ jobs[i].pc = "blob"
    /\ \/ \E m \in ReadErrors : Fail(i, m)
       \/ \E size \in BlobSizes :
            IF TooLarge(size)
              THEN /\ alert' = TooLargeAlert
                   /\ uploading' = FALSE
                   /\ jobs' = RemoveAt(jobs, i)
                   /\ pickCanceled' = FALSE
                   /\ UNCHANGED <<mounted, imageAtPick, name, image, submissions, loadingSubmissions,
                                  refreshing, isConnected, netFetch, permission,
                                  pickerOpen, fetches, table, bucket>>
              ELSE /\ jobs' = [jobs EXCEPT ![i] = [@ EXCEPT !.pc = "upload", !.blob = size]]
                   /\ alert' = NoAlert
                   /\ pickCanceled' = FALSE
                   /\ UNCHANGED <<mounted, imageAtPick, ui, netFetch, permission, pickerOpen, fetches,
                                  table, bucket>>

\* await storage.upload(filePath, blob) returns; getPublicUrl; the insert is issued
UploadDone ==
  \E i \in 1..Len(jobs) :
    /\ jobs[i].pc = "upload"
    /\ \/ \E m \in StorageErrors : Fail(i, m)
       \/ /\ bucket' = bucket \cup {jobs[i].filePath}
          /\ jobs' = [jobs EXCEPT ![i] = [@ EXCEPT !.pc = "insert",
                                             !.imageUrl = Some(GetPublicUrl(jobs[i].filePath))]]
          /\ alert' = NoAlert
          /\ pickCanceled' = FALSE
          /\ UNCHANGED <<mounted, imageAtPick, ui, netFetch, permission, pickerOpen, fetches, table>>

ResetNameOnly == name' = <<>> /\ UNCHANGED image

\* setName(''); setImage(null)
ResetForm == name' = <<>> /\ image' = Null

RefreshSkipped(fs, t) == fs

\* fetchSubmissions() after the success notice, its returned promise dropped
RefreshAfterSubmit(fs, t) == StartFetch(fs, t, FALSE)

NewRowWithLocalUri(t, job) ==
  [id |-> Len(t) + 1, name |-> job.name, image_url |-> job.image]

\* insert([{ name, image_url: imageUrl }]): the row the table stores for an
\* attempt, with the id the table assigns
NewRow(t, job) ==
  [id |-> Len(t) + 1, name |-> job.name, image_url |-> job.imageUrl[1]]

\* await insert([{ name, image_url }]) returns; reset, notice, refresh, finally
InsertDone ==
  \E i \in 1..Len(jobs) :
    /\ jobs[i].pc = "insert"
    /\ \/ \E m \in InsertErrors : Fail(i, m)
       \/ /\ Len(table) < MaxRows
          /\ BagCardinality(fetches) < MaxFetches
          /\ table' = Append(table, NewRow(table, jobs[i]))
          /\ ResetForm
          /\ alert' = SuccessAlert
          /\ loadingSubmissions' = TRUE
          /\ fetches' = RefreshAfterSubmit(fetches, table')
          /\ uploading' = FALSE
          /\ jobs' = RemoveAt(jobs, i)
          /\ pickCanceled' = FALSE
          /\ UNCHANGED <<mounted, imageAtPick, submissions, refreshing, isConnected, netFetch,
                         permission, pickerOpen, bucket>>

Background ==
  \/ Mount
  \/ onRefresh
  \/ FetchDone
  \/ NetFetchResolved
  \/ NetEvent
  \/ PermissionResolved
  \/ pickImage
  \/ PickerResult
  \/ ChangeText
  \/ ImageFetched
  \/ BlobRead
  \/ UploadDone
  \/ InsertDone

\* the screen as the user drives it
Next == Background \/ PressSubmit

Spec == Init /\ [][Next]_vars

\* the handler invoked directly, for every draft and connectivity flag: the
\* mounted screen at rest with any draft the form can hold
InitCall ==
  /\ mounted = TRUE
  /\ name \in Names
  /\ image \in {Null} \cup {Some(u) : u \in Uris}
  /\ uploading = FALSE
  /\ submissions = <<>>
  /\ loadingSubmissions = FALSE
  /\ refreshing = FALSE
  /\ isConnected \in BOOLEAN
  /\ netFetch = FALSE
  /\ permission = "answered"
  /\ pickerOpen = FALSE
  /\ imageAtPick = Null
  /\ pickCanceled = FALSE
  /\ jobs = <<>>
  /\ fetches = EmptyBag
  /\ table = <<>>
  /\ bucket = {}
  /\ alert = NoAlert

NextCall ==
  \/ CallSubmit
  \/ ImageFetched
  \/ BlobRead
  \/ UploadDone
  \/ InsertDone
  \/ FetchDone

SpecCall == InitCall /\ [][NextCall]_vars

\* each awaited call of handleSubmit eventually returns
Returns ==
  /\ WF_vars(ImageFetched)
  /\ WF_vars(BlobRead)
  /\ WF_vars(UploadDone)
  /\ WF_vars(InsertDone)

LiveSpec == SpecCall /\ Returns

\* the screen with the form filled in but never submitted: the mount effects,
\* the connectivity monitor, the list and the picker
NextPick ==
  \/ Mount
  \/ onRefresh
  \/ FetchDone
  \/ NetFetchResolved
  \/ NetEvent
  \/ PermissionResolved
  \/ pickImage
  \/ PickerResult
  \/ ChangeText

\* the permission request and the picker eventually return
PickReturns == WF_vars(PermissionResolved) /\ WF_vars(PickerResult)

SpecPick == Init /\ [][NextPick]_vars /\ PickReturns

\* ------------------------------------------------------------ properties
\* the draft fails the name or the image check of handleSubmit
DraftInvalid == Trim(name) = <<>> \/ image = Null

\* a handleSubmit invocation passes validation and starts its pipeline
AttemptStarts == Len(jobs') > Len(jobs)

\* an in-flight fetchSubmissions returns
FetchReturns == BagCardinality(fetches') < BagCardinality(fetches)

\* the insert of an attempt succeeds
SubmitSucceeds == Len(table') > Len(table)

FetchErrorAlerts == {FetchErrorAlert(m) : m \in SelectErrors}

\* C1: while the draft's name is empty or blank, or no image is selected, no
\* step starts a submit pipeline (the only caller of upload and insert), and
\* with none in flight name, image, uploading, the table and the bucket stay
\* as they are whatever handleSubmit is asked to do.
C1_InvalidDraftNeverSubmits ==
  [][DraftInvalid =>
       /\ ~AttemptStarts
       /\ jobs = <<>> => UNCHANGED <<name, image, uploading, jobs, table, bucket>>]_vars

\* a blank name with an image selected was submitted: one notice, nothing else
C1_Witness ==
  /\ name = <<" ">> /\ image # Null /\ isConnected
  /\ alert = EnterNameAlert
  /\ jobs = <<>> /\ ~uploading /\ bucket = {} /\ table = <<>>

\* C2: while isConnected is false no step starts a submit pipeline, so no
\* upload and no insert comes out of a handleSubmit invoked offline, whatever
\* connectivity events came before.
C2_OfflineNeverSubmits == [][~isConnected => ~AttemptStarts]_vars

\* a complete draft was submitted offline: the notice, and nothing in flight
C2_Witness ==
  /\ ~isConnected /\ ~DraftInvalid
  /\ alert = NoNetworkAlert
  /\ jobs = <<>> /\ ~uploading /\ bucket = {} /\ table = <<>>

\* C3: at most one handleSubmit pipeline is in flight, and uploading is set
\* for as long as it is.
C3_SingleSubmission == Len(jobs) <= 1 /\ (jobs # <<>> => uploading)

\* an upload is pending while the form is complete and takes input: only
\* uploading keeps the button disabled
C3_Witness ==
  /\ Len(jobs) = 1 /\ jobs[1].pc = "upload"
  /\ Interactive /\ ~EmptyString(name) /\ ~NoImage(image)

\* C4: the step in which the insert succeeds ends the attempt with name the
\* empty string and image null.
C4_SuccessClearsDraft ==
  [][SubmitSucceeds => name' = <<>> /\ image' = Null /\ jobs' = <<>> /\ ~uploading']_vars

C4_Witness ==
  /\ alert = SuccessAlert /\ Len(table) = 1 /\ bucket # {}
  /\ name = <<>> /\ image = Null /\ jobs = <<>>

\* the insert of the attempt in flight fails
InsertFails == jobs # <<>> /\ jobs[1].pc = "insert" /\ jobs' = <<>> /\ table' = table

StatedLimit == 5242880

\* C6: no attempt reaches the upload or the insert with an image of more than
\* 5,242,880 bytes, and the step that shows the size notice ends the attempt
\* and leaves name, image, the table and the bucket as they were.
C6_OversizeStopsBeforeUpload ==
  [][/\ \A i \in 1..Len(jobs') :
          jobs'[i].pc \in {"upload", "insert"} => jobs'[i].blob <= StatedLimit
     /\ alert' = TooLargeAlert =>
          /\ UNCHANGED <<name, image, table, bucket>>
          /\ jobs' = <<>> /\ ~uploading']_vars

C6_Witness ==
  /\ alert = TooLargeAlert
  /\ jobs = <<>> /\ ~uploading /\ bucket = {} /\ table = <<>> /\ ~DraftInvalid

\* C7: when the awaited calls return, uploading always becomes false again and
\* is never left true with no attempt in flight; the step that ends an attempt
\* shows a notice with a text, an error notice unless the insert succeeded; a
\* handleSubmit that rejects the draft shows an error notice and leaves
\* uploading as it was.
C7_FailureReturnsToIdle ==
  /\ uploading ~> ~uploading
  /\ [][/\ (uploading /\ ~uploading') =>
             /\ alert'.message # ""
             /\ alert'.title = IF SubmitSucceeds THEN "Success" ELSE "Error"
        /\ ~(uploading' /\ jobs' = <<>>)
        /\ (jobs' = jobs /\ fetches' = fetches) =>
             /\ alert' \in {EnterNameAlert, SelectImageAlert, NoNetworkAlert}
             /\ UNCHANGED uploading]_vars

C7_Witness ==
  /\ alert = SubmitErrorAlert("storage error")
  /\ jobs = <<>> /\ ~uploading

C9_EmptyNeverWhilePending ==
  ListView(loadingSubmissions, submissions) = "empty" => fetches = EmptyBag

\* C10: the step in which the insert succeeds clears the draft, resets
\* uploading and issues a fetchSubmissions that sees the new row; the step in
\* which a fetchSubmissions fails leaves name, image, uploading, the table,
\* the bucket and the attempts as they were.
C10_SuccessRefetches ==
  [][/\ SubmitSucceeds =>
          \E f \in BagToSet(fetches') :
            /\ f.seen = Len(table') /\ ~f.fromRefresh
            /\ CopiesIn(f, fetches') = CopiesIn(f, fetches) + 1
            /\ name' = <<>> /\ image' = Null /\ ~uploading'
     /\ (FetchReturns /\ alert' \in FetchErrorAlerts) =>
          UNCHANGED <<name, image, uploading, table, bucket, jobs>>]_vars

\* the refresh after a success failed: the row is stored, the draft cleared,
\* the list stale
C10_Witness ==
  /\ alert \in FetchErrorAlerts /\ fetches = EmptyBag
  /\ Len(table) = 1 /\ submissions = <<>>
  /\ name = <<>> /\ image = Null /\ ~uploading /\ jobs = <<>>

\* C11: the offline notice is shown in exactly the steps in which isConnected
\* goes from true to false: every such step shows it, and no step taken while
\* isConnected is already false shows it again.
C11_OfflineNoticeOncePerTransition ==
  [][(alert' = NetworkLostAlert) <=> (isConnected /\ ~isConnected')]_vars

\* everything but the picker's own bookkeeping and the notice
allButPicker == <<mounted, name, image, uploading, submissions, loadingSubmissions,
                  refreshing, isConnected, netFetch, permission, jobs, fetches, table,
                  bucket>>

\* C12 as stated: the step in which the picker returns canceled leaves image
\* equal to what it was when pickImage was invoked, and changes neither name
\* nor any other state.
C12_CancelRestoresImageAtPick ==
  [][pickCanceled' => image' = imageAtPick /\ UNCHANGED allButPicker]_vars

\* C12: the step in which the picker returns canceled changes neither image
\* nor name nor any other state and shows no notice; image is then what it was
\* when pickImage was invoked or, when a submission succeeded while the picker
\* was open, the null the success reset wrote.
C12_CancelChangesNothing ==
  [][pickCanceled' =>
       /\ UNCHANGED allButPicker
       /\ alert' = NoAlert /\ ~pickerOpen'
       /\ image' \in {imageAtPick, Null}]_vars

\* the picker was canceled with an image already selected: it is kept
C12_Witness == pickCanceled /\ image # Null /\ name # <<>> /\ ~pickerOpen

\* C13: once the permission request has been answered with a denial (the
\* step that shows the permission notice), no pickImage sets image: it stays
\* null from then on.
C13_DeniedNeverPicks == [](alert = PermissionAlert => [](image = Null))

\* C14: loadingSubmissions is true whenever a fetchSubmissions is in flight,
\* and uploading is true whenever an attempt is in its upload or insert stage.
C14_BusyWhilePending ==
  /\ fetches # EmptyBag => loadingSubmissions
  /\ (\E i \in 1..Len(jobs) : jobs[i].pc \in {"upload", "insert"}) => uploading

StorageErrorAlerts == {SubmitErrorAlert(m) : m \in StorageErrors}

\* C15: an attempt enters its insert stage only in the step in which its own
\* upload succeeds, carrying the public URL of the key it uploaded; the row an
\* insert stores has the attempt's non-blank name and that URL, its key being
\* in the bucket; the step in which an upload fails ends the attempt with the
\* table untouched.
C15_InsertAfterUpload ==
  [][/\ \A i \in 1..Len(jobs) :
          (Len(jobs') = Len(jobs) /\ jobs[i].pc # "insert" /\ jobs'[i].pc = "insert") =>
             /\ jobs[i].pc = "upload"
             /\ bucket' = bucket \cup {jobs[i].filePath}
             /\ jobs'[i].imageUrl = Some(GetPublicUrl(jobs[i].filePath))
             /\ alert' = NoAlert
     /\ SubmitSucceeds =>
          \E i \in 1..Len(jobs) :
            /\ jobs[i].pc = "insert" /\ jobs' = RemoveAt(jobs, i)
            /\ jobs[i].filePath \in bucket
            /\ table' = Append(table, [id |-> Len(table) + 1, name |-> jobs[i].name,
                                       image_url |-> GetPublicUrl(jobs[i].filePath)])
            /\ Trim(jobs[i].name) # <<>>
     /\ \A i \in 1..Len(jobs) :
          (jobs[i].pc = "upload" /\ jobs' = RemoveAt(jobs, i)) =>
             /\ alert' \in StorageErrorAlerts
             /\ UNCHANGED <<table, bucket>>]_vars

\* an insert is pending for a key the bucket holds while the user has already
\* changed the name field
C15_Witness ==
  /\ Len(jobs) = 1 /\ jobs[1].pc = "insert"
  /\ jobs[1].filePath \in bucket /\ table = <<>>
  /\ name # jobs[1].name

\* C16: the step that issues an upload uses a key under which no earlier
\* upload was issued (none stored in the bucket, none pending in another
\* attempt), the key being a Date.now() value followed by the extension of
\* the attempt's image URI.
C16_UniqueStorageKeys ==
  [][\A i \in 1..Len(jobs) :
       (Len(jobs') = Len(jobs) /\ jobs[i].pc = "blob" /\ jobs'[i].pc = "upload") =>
          /\ jobs[i].filePath \notin bucket
          /\ \A j \in 1..Len(jobs) :
               (j # i /\ jobs[j].pc \in {"upload", "insert"}) =>
                  jobs[j].filePath # jobs[i].filePath
          /\ \E t \in Clock : jobs[i].filePath = FileName(t, jobs[i].image)]_vars

\* the rows a list holds
Rows(subs) == {subs[k] : k \in 1..Len(subs)}

\* C17: no step removes a submission from the displayed list: every row of
\* submissions is still in it after any step, whichever fetchSubmissions
\* returns and in whatever order.
C17_ListNeverRegresses == [][Rows(submissions) \subseteq Rows(submissions')]_vars

\* C18: an attempt carries the name and the image the draft held when
\* handleSubmit was invoked, the row it inserts has that name and the key it
\* uploads the extension of that image, whatever the user typed or picked
\* meanwhile; and the success step leaves a field edited while the attempt
\* was in flight as the user left it.
C18_OneSnapshotEditsKept ==
  [][/\ AttemptStarts =>
          /\ jobs'[Len(jobs')].name = name
          /\ Some(jobs'[Len(jobs')].image) = image
     /\ SubmitSucceeds =>
          \E i \in 1..Len(jobs) :
            /\ jobs[i].pc = "insert" /\ jobs' = RemoveAt(jobs, i)
            /\ table'[Len(table')].name = jobs[i].name
            /\ table'[Len(table')].image_url.path.ext = SplitPop(jobs[i].image)
            /\ name # jobs[i].name => name' = name
            /\ image # Some(jobs[i].image) => image' = image]_vars

\* C19: with no attempt in flight, every key stored in the bucket is the key
\* of exactly one row of the table, and there are as many stored objects as
\* rows.
C19_NoOrphanUploads ==
  jobs = <<>> =>
    /\ \A key \in bucket :
         Cardinality({k \in 1..Len(table) : table[k].image_url = GetPublicUrl(key)}) = 1
    /\ Cardinality(bucket) = Len(table)
====
